---- MODULE Spec2Model ----
(***************************************************************************)
(* A model of the dictionary service (MtdService, and the older            *)
(* MTDService with its remote fetches), of the browse view                 *)
(* (BrowseComponent) with its letter index, of the bookmarks of the word   *)
(* modal, of the fuzzy search of the entry list (levenstein) and of the    *)
(* report endpoint (report.php) of the MTD dictionary web UI.              *)
(*                                                                         *)
(* JavaScript strings are modelled as sequences of one-character strings,  *)
(* JavaScript numbers that can be NaN as records [nan, v], arrays as       *)
(* sequences (1-based here, 0-based in the source), and objects used as    *)
(* dictionaries as functions from keys to values.                          *)
(***************************************************************************)
EXTENDS Integers, Sequences, FiniteSets, TLC

VARIABLES
    dictionary_data,   \* MtdService._dictionary_data$ : the current array of entries
    loaded,            \* the entry collection as it was loaded (window['dataDict'])
    browseAudio,       \* META.browseAudio, the flag that forces the audio category
    view,              \* the last value emitted by a derived view of the service
    currentEntries,    \* BrowseComponent.currentEntries$ : the current collection
    currentX,          \* BrowseComponent.currentX : the displayed window
    startIndex,        \* BrowseComponent.startIndex$ : the pagination cursor
    selectedCategory,  \* BrowseComponent.selectedCategory
    default_shown,     \* BrowseComponent.default_shown : the page size
    routeStart,        \* the :start parameter of the current URL
    pendingNav,        \* the navigation requested of the router, not yet delivered
    redirects,         \* redirects the route handler issued for the last request
    emits,             \* entry collections the service has emitted after loading
    config,            \* MtdService._config$ : the current configuration
    loadedConfig,      \* the configuration as it was loaded (window['config'])
    remote,            \* the remote fetches of the service: their progress
    displayLetters,    \* the last value emitted by BrowseComponent.displayLetters$
    firstWordIndex,    \* the firstWordIndex field of the entries, by entryID
    bookmarks,         \* BookmarksService.bookmarks : the array of bookmarked entries
    instances,         \* how many times the entry objects have been created
    lastToggle,        \* the last calls of toggleFav and the bookmarks before them
    search,            \* the last call of levenstein: its arguments and its result
    report,            \* the report endpoint: the request, the response, the mails
    playback,          \* EntryListComponent.playDefaultAudio: the last call
    example,           \* the example of the word modal and the playbacks of its audio
    modal              \* WordModalComponent.reported and its report dialogs

vars == <<dictionary_data, loaded, browseAudio, view, currentEntries, currentX,
          startIndex, selectedCategory, default_shown, routeStart, pendingNav,
          redirects, emits, config, loadedConfig, remote, displayLetters,
          firstWordIndex, bookmarks, instances, lastToggle, search, report,
          playback, example, modal>>

\* the configuration and its remote fetch
configVars == <<config, loadedConfig, remote>>

\* the bookmarks, the fuzzy search and the report endpoint
otherVars == <<bookmarks, instances, lastToggle, search, report>>

\* the audio playbacks and the report dialogs
mediaVars == <<playback, example, modal>>

serviceVars == <<dictionary_data, loaded, browseAudio, view, emits, configVars,
                 otherVars, mediaVars>>

browseVars == <<currentEntries, currentX, startIndex, selectedCategory,
                default_shown, routeStart, pendingNav, redirects,
                displayLetters, firstWordIndex>>

---------------------------------------------------------------------------
(* Bounds of the model *)

MaxLen == 3        \* longest entry collection in the sorting and sampling runs
MaxSortLen == 2    \* longest sorting_form
NumLetters == 2    \* letters of the alphabet used by sorting forms
MaxCatLen == 2     \* longest entry collection in the category runs
MaxAudioLen == 2   \* longest audio attachment array
MaxBrowseLen == 2  \* longest entry collection in the browse runs
MaxEmits == 1      \* entry collections emitted after loading
MaxLetterLen == 2  \* longest entry collection in the letter index runs
MaxBookLen == 3    \* entries of the runs with bookmarks
MaxInstances == 2  \* times the entry objects are created in those runs
MaxStrLen == 3     \* longest string given to the fuzzy search
MaxRequests == 2   \* requests the report endpoint serves
MaxPlayLen == 2    \* longest entry collection in the runs with audio
MaxWords == 3      \* most words of an example sentence
MaxTime == 3       \* length of an example's recording, in hundredths of a second
MaxPlayers == 2    \* playbacks started for one example
MaxDialogs == 2    \* report dialogs opened from one word modal

---------------------------------------------------------------------------
(* JavaScript values *)

Min(a, b) == IF a < b THEN a ELSE b
Max(a, b) == IF a > b THEN a ELSE b

\* a JavaScript number: NaN or an integer
Num(v) == [nan |-> FALSE, v |-> v]
NaN == [nan |-> TRUE, v |-> 0]

\* a JavaScript value of an optional field: absent key, undefined, a string,
\* an object (a single attachment) or an array of attachments
Absent == [t |-> "absent", s |-> <<>>, files |-> <<>>]
Undefined == [t |-> "undefined", s |-> <<>>, files |-> <<>>]
Str(s) == [t |-> "string", s |-> s, files |-> <<>>]
Obj(filename) == [t |-> "object", s |-> filename, files |-> <<>>]
Arr(files) == [t |-> "array", s |-> <<>>, files |-> files]

\* the strings of the model
S_s1 == <<"s", "1">>
S_s2 == <<"s", "2">>
S_food == <<"f", "o", "o", "d">>
S_Food == <<"F", "o", "o", "d">>
S_audio == <<"a", "u", "d", "i", "o">>
S_mp3 == <<"a", ".", "m", "p", "3">>
S_words == <<"w", "o", "r", "d", "s">>
S_NaN == <<"N", "a", "N">>

\* ToBoolean: undefined and the empty string are falsy, objects and arrays truthy
Truthy(x) ==
    CASE x.t = "absent" -> FALSE
      [] x.t = "undefined" -> FALSE
      [] x.t = "string" -> x.s # <<>>
      [] OTHER -> TRUE

\* Array.prototype.slice(begin, end)
Slice(a, begin, end) ==
    LET len == Len(a)
        k == IF begin < 0 THEN Max(len + begin, 0) ELSE Min(begin, len)
        final == IF end < 0 THEN Max(len + end, 0) ELSE Min(end, len)
    IN  IF final <= k THEN <<>> ELSE SubSeq(a, k + 1, final)

---------------------------------------------------------------------------
(* JavaScript numbers: parseInt, Number to string, Math.min and Math.max *)

Digits == <<"0", "1", "2", "3", "4", "5", "6", "7", "8", "9">>

IsDigit(c) == \E d \in DOMAIN Digits : Digits[d] = c
DigitValue(c) == (CHOOSE d \in DOMAIN Digits : Digits[d] = c) - 1

\* the value of the longest prefix of digits of str, continuing from acc
RECURSIVE ParseDigits(_, _)
ParseDigits(str, acc) ==
    IF str = <<>> \/ ~IsDigit(Head(str)) THEN acc
    ELSE ParseDigits(Tail(str), 10 * acc + DigitValue(Head(str)))

\* parseInt(string): an optional sign, then the longest prefix of digits
ParseInt(str) ==
    LET signed == str # <<>> /\ Head(str) \in {"-", "+"}
        body == IF signed THEN Tail(str) ELSE str
    IN  IF body = <<>> \/ ~IsDigit(Head(body)) THEN NaN
        ELSE IF signed /\ Head(str) = "-" THEN Num(0 - ParseDigits(body, 0))
        ELSE Num(ParseDigits(body, 0))

RECURSIVE NatToString(_)
NatToString(n) ==
    IF n < 10 THEN <<Digits[n + 1]>>
    ELSE NatToString(n \div 10) \o <<Digits[(n % 10) + 1]>>

\* String(number), as the router renders a number in a URL segment
NumToString(x) ==
    IF x.nan THEN S_NaN
    ELSE IF x.v < 0 THEN <<"-">> \o NatToString(0 - x.v)
    ELSE NatToString(x.v)

MathMin(a, b) == IF a.nan \/ b.nan THEN NaN ELSE Num(Min(a.v, b.v))
MathMax(a, b) == IF a.nan \/ b.nan THEN NaN ELSE Num(Max(a.v, b.v))
NumAdd(a, b) == IF a.nan \/ b.nan THEN NaN ELSE Num(a.v + b.v)
NumSub(a, b) == IF a.nan \/ b.nan THEN NaN ELSE Num(a.v - b.v)
NumLess(a, b) == ~a.nan /\ ~b.nan /\ a.v < b.v
StrictEquals(a, b) == ~a.nan /\ ~b.nan /\ a.v = b.v

\* ToIntegerOrInfinity of a slice bound: NaN becomes 0
ToInteger(x) == IF x.nan THEN 0 ELSE x.v

---------------------------------------------------------------------------
(* MtdService.dataDict$ : entries.sort(compareFn), in place and stable *)

compareFn(a, b) == a.sorting_form[1] - b.sorting_form[1]

\* x is placed after every element that does not compare greater than it
RECURSIVE SortInsert(_, _)
SortInsert(s, x) ==
    IF s = <<>> THEN <<x>>
    ELSE IF compareFn(x, Head(s)) < 0 THEN <<x>> \o s
    ELSE <<Head(s)>> \o SortInsert(Tail(s), x)

RECURSIVE StableSort(_)
StableSort(a) ==
    IF a = <<>> THEN <<>>
    ELSE SortInsert(StableSort(SubSeq(a, 1, Len(a) - 1)), a[Len(a)])

\* a sort that places an element before its equals
RECURSIVE UnstableInsert(_, _)
UnstableInsert(s, x) ==
    IF s = <<>> THEN <<x>>
    ELSE IF compareFn(x, Head(s)) <= 0 THEN <<x>> \o s
    ELSE <<Head(s)>> \o UnstableInsert(Tail(s), x)

RECURSIVE ArraySort_unstable(_)
ArraySort_unstable(a) ==
    IF a = <<>> THEN <<>>
    ELSE UnstableInsert(ArraySort_unstable(SubSeq(a, 1, Len(a) - 1)), a[Len(a)])

\* a sort that keeps one entry per key
RECURSIVE DedupInsert(_, _)
DedupInsert(s, x) ==
    IF s = <<>> THEN <<x>>
    ELSE IF compareFn(x, Head(s)) < 0 THEN <<x>> \o s
    ELSE IF compareFn(x, Head(s)) = 0 THEN s
    ELSE <<Head(s)>> \o DedupInsert(Tail(s), x)

RECURSIVE ArraySort_dedup(_)
ArraySort_dedup(a) ==
    IF a = <<>> THEN <<>>
    ELSE DedupInsert(ArraySort_dedup(SubSeq(a, 1, Len(a) - 1)), a[Len(a)])

ArraySort(a) == StableSort(a)

---------------------------------------------------------------------------
(* MtdService.shuffle and getRandom$ *)

\* the draws Math.floor(Math.random() * (top + 1)) for top = len-1 .. 1
Draws(len) == [1..(len - 1) -> 0..(len - 1)]
ValidDraws(len) == {r \in Draws(len) : \A top \in 1..(len - 1) : r[top] <= top}

\* a swap that forgets to write tmp back: copy[current] = copy[top] only
Swap_overwrite(a, i, j) == [a EXCEPT ![i + 1] = a[j + 1]]

\* tmp = copy[current]; copy[current] = copy[top]; copy[top] = tmp
Swap(a, i, j) == [a EXCEPT ![i + 1] = a[j + 1], ![j + 1] = a[i + 1]]

\* the loop while (--top) { ... }, entered with top already decremented
RECURSIVE ShuffleLoop(_, _, _)
ShuffleLoop(copy, top, r) ==
    IF top = 0 THEN copy
    ELSE ShuffleLoop(Swap(copy, r[top], top), top - 1, r)

shuffle(array, r) ==
    IF Len(array) = 0 THEN array ELSE ShuffleLoop(array, Len(array) - 1, r)

getRandom(x, no_random, r) == Slice(shuffle(x, r), 0, no_random)

getSlice(x, start_index, no_slice) == Slice(x, start_index, start_index + no_slice)

---------------------------------------------------------------------------
(* MtdService.hasAudio and categories$ *)

UpperCase == <<"A", "B", "C", "D", "E", "F", "G", "H", "I", "J", "K", "L", "M",
               "N", "O", "P", "Q", "R", "S", "T", "U", "V", "W", "X", "Y", "Z">>
LowerCase == <<"a", "b", "c", "d", "e", "f", "g", "h", "i", "j", "k", "l", "m",
               "n", "o", "p", "q", "r", "s", "t", "u", "v", "w", "x", "y", "z">>

ToLowerChar(c) ==
    IF \E i \in DOMAIN UpperCase : UpperCase[i] = c
    THEN LowerCase[CHOOSE i \in DOMAIN UpperCase : UpperCase[i] = c]
    ELSE c

\* String.prototype.toLowerCase
ToLowerCase(str) == [i \in DOMAIN str |-> ToLowerChar(str[i])]

\* the test of the older service: any truthy audio field counts
hasAudio_truthy(entry) == Truthy(entry.audio)

hasAudio(entry) ==
    IF entry.audio.t = "absent" THEN FALSE
    ELSE IF entry.audio.t = "array"
         THEN Len(SelectSeq(entry.audio.files, LAMBDA audioFile : Truthy(audioFile.filename))) # 0
         ELSE Truthy(entry.audio)

allAudioEntries(arr) == SelectSeq(arr, hasAudio)

\* audioEntries.length < entries.length * 0.75, in integers
AudioFractionNum == 3
AudioFractionDen == 4

\* uniq(entries.map(x => x['source'])) and the first loop
sourceCategories(entries) ==
    [key \in {entries[i].source : i \in DOMAIN entries} |->
        SelectSeq(entries, LAMBDA x : x.source = key)]

\* the value the theme callback returns for an entry
themeOf(entry) ==
    IF Truthy(entry.theme) /\ entry.theme.t = "string"
    THEN Str(ToLowerCase(entry.theme.s))
    ELSE Undefined

\* uniq(...).sort(), as the set of its truthy members
semantic_categories(entries) ==
    {cat.s : cat \in {c \in {themeOf(entries[i]) : i \in DOMAIN entries} : Truthy(c)}}

\* the second loop: categories[cat] = entries.filter(entry => entry.theme === cat)
themeCategories(categories, entries) ==
    [key \in DOMAIN categories \cup semantic_categories(entries) |->
        IF key \in semantic_categories(entries)
        THEN SelectSeq(entries, LAMBDA entry : entry.theme = Str(key))
        ELSE categories[key]]

\* the conditional assignment of categories['audio']
audioCategory(categories, entries, flag) ==
    LET audioEntries == SelectSeq(entries, hasAudio)
    IN  IF /\ Len(audioEntries) > 0
           /\ \/ AudioFractionDen * Len(audioEntries) < AudioFractionNum * Len(entries)
              \/ flag
        THEN [key \in DOMAIN categories \cup {S_audio} |->
                 IF key = S_audio THEN audioEntries
                 ELSE categories[key]]
        ELSE categories

categories(entries, flag) ==
    audioCategory(themeCategories(sourceCategories(entries), entries), entries, flag)

category_keys(entries, flag) == DOMAIN categories(entries, flag)

---------------------------------------------------------------------------
(* Entries *)

Entry(id, sf, source, theme, audio) ==
    [entryID |-> id, sorting_form |-> sf, source |-> source,
     theme |-> theme, audio |-> audio]

\* all sequences over S of length lo..hi
SeqsOf(S, lo, hi) == UNION {[1..k -> S] : k \in lo..hi}

Range(a) == {a[i] : i \in DOMAIN a}

\* sorting forms: non-empty index sequences into the alphabet
SortForms == SeqsOf(0..(NumLetters - 1), 1, MaxSortLen)

\* collections whose entries differ in their sorting form; entryID is the
\* position at which the entry was loaded
SortInputs ==
    UNION {{[i \in 1..k |-> Entry(i, f[i], S_s1, Undefined, Absent)] :
               f \in [1..k -> SortForms]} : k \in 0..MaxLen}

\* audio attachments and audio fields
Attachments == {[filename |-> Undefined], [filename |-> Str(<<>>)], [filename |-> Str(S_mp3)]}

AudioValues ==
    {Absent, Undefined, Str(<<>>), Str(S_mp3), Obj(S_mp3)}
        \cup {Arr(files) : files \in SeqsOf(Attachments, 0, MaxAudioLen)}

\* collections whose entries differ in their audio field
AudioInputs(maxLen) ==
    UNION {{[i \in 1..k |-> Entry(i, <<0>>, S_s1, Undefined, f[i])] :
               f \in [1..k -> AudioValues]} : k \in 0..maxLen}

\* collections whose entries differ in source, theme and audio
CatFields ==
    {S_s1, S_food, S_audio}
        \X {Undefined, Str(<<>>), Str(S_food), Str(S_Food)}
        \X {Absent, Arr(<<>>), Arr(<<[filename |-> Str(S_mp3)]>>)}

CatInputs(maxLen) ==
    UNION {{[i \in 1..k |-> Entry(i, <<0>>, f[i][1], f[i][2], f[i][3])] :
               f \in [1..k -> CatFields]} : k \in 0..maxLen}

\* sorting forms of one or two letters
LetterForms ==
    {<<i>> : i \in 0..(NumLetters - 1)}
        \cup {<<i, j>> : i \in 0..(NumLetters - 1), j \in 0..(NumLetters - 1)}

\* collections whose entries differ in their sorting form, for the letter index
LetterInputs ==
    UNION {{[i \in 1..k |-> Entry(i, f[i], S_s1, Undefined, Absent)] :
               f \in [1..k -> LetterForms]} : k \in 0..MaxLetterLen}

---------------------------------------------------------------------------
(* The configuration and the letter index of the browse view *)

\* the fields of the configuration the model reads: L1.lettersInLanguage,
\* build and audio_path, which the configuration of the tests does not have
Config(lettersInLanguage, build) ==
    [lettersInLanguage |-> lettersInLanguage, build |-> build, audio_path |-> Absent]

TESTCONFIG == Config(<<"f", "o">>, "baz")

\* the letters alphabets are made of
LetterPool == <<"f", "o", "b", "a">>

\* the alphabets: the orderings of some of the first NumLetters letters
Alphabets ==
    {a \in SeqsOf({LetterPool[i] : i \in 1..NumLetters}, 0, NumLetters) :
        \A i, j \in DOMAIN a : i # j => a[i] # a[j]}

\* Array.prototype.indexOf, with strict equality: 0-based, -1 when absent
IndexOf(a, x) ==
    IF \E i \in DOMAIN a : a[i] = x
    THEN (CHOOSE i \in DOMAIN a : a[i] = x /\ \A j \in 1..(i - 1) : a[j] # x) - 1
    ELSE -1

\* an entry that has no firstWordIndex field
NoMark == -1

\* a test that looks for the letter anywhere in the sorting form
startsWith_any(entry, ind) ==
    \E k \in DOMAIN entry.sorting_form : entry.sorting_form[k] = ind

\* entry.sorting_form[0] === ind
startsWith(entry, ind) ==
    Len(entry.sorting_form) > 0 /\ entry.sorting_form[1] = ind

\* the inner loop: the position of the first entry that passes the test, 0 if none
firstEntry(entries, ind) ==
    IF \E i \in DOMAIN entries : startsWith(entries[i], ind)
    THEN CHOOSE i \in DOMAIN entries :
            /\ startsWith(entries[i], ind)
            /\ \A j \in 1..(i - 1) : ~startsWith(entries[j], ind)
    ELSE 0

\* the outer loop over this.letters from its k-th letter on: the letters
\* pushed to newLetters and the firstWordIndex fields the loop has written
RECURSIVE letterLoop(_, _, _, _, _)
letterLoop(letters, k, entries, newLetters, marks) ==
    IF k > Len(letters) THEN [newLetters |-> newLetters, marks |-> marks]
    ELSE LET ind == IndexOf(letters, letters[k])
             i == firstEntry(entries, ind)
         IN  IF i = 0
             THEN letterLoop(letters, k + 1, entries, newLetters, marks)
             ELSE letterLoop(letters, k + 1, entries, Append(newLetters, letters[k]),
                             [marks EXCEPT ![entries[i].entryID] = ind])

\* the callback of displayLetters$ applied to the entries
letterInit(letters, entries, marks) == letterLoop(letters, 1, entries, <<>>, marks)

\* letterNeverStarts(letter), for a subscriber of displayLetters$
letterNeverStarts(letters, letter) == IndexOf(letters, letter) = -1

\* entries that have just been created: none has a firstWordIndex field
NoMarks(entries) == [id \in {entries[i].entryID : i \in DOMAIN entries} |-> NoMark]

---------------------------------------------------------------------------
(* The state of the views and of a browse view that is not constructed *)

NoView == [op |-> "none", n |-> 0, value |-> <<>>]

NoNav == [pending |-> FALSE, target |-> <<>>]

BrowseNotConstructed ==
    /\ currentEntries = <<>>
    /\ currentX = <<>>
    /\ startIndex = 0
    /\ selectedCategory = <<>>
    /\ default_shown = Num(0)
    /\ routeStart = Undefined
    /\ pendingNav = NoNav
    /\ redirects = 0
    /\ displayLetters = <<>>
    /\ firstWordIndex = <<>>

\* no remote fetch has been started
NoRemote == [config |-> "none", data |-> "none"]

\* the configuration is the one the service starts with and is not fetched
ConfigIdle ==
    /\ config = TESTCONFIG
    /\ loadedConfig = TESTCONFIG
    /\ remote = NoRemote

NoToggle == <<>>

NoSearch == [called |-> FALSE, string1 |-> <<>>, string2 |-> <<>>, result |-> 0]

\* the report endpoint before any request; variant is the report.php in use
NoReport ==
    [variant |-> "none", requests |-> 0, origin |-> Absent, id |-> Absent,
     status |-> 0, cors |-> Absent, sent |-> 0, mails |-> <<>>]

\* no playback of the default audio yet
NoPlayback == [state |-> "idle", entryID |-> 0, path |-> <<>>, notice |-> Absent]

\* no example shown
NoExample == [definition |-> <<>>, starts |-> <<>>, players |-> <<>>]

\* the word modal is not open
NoModal == [open |-> FALSE, entry |-> FALSE, reported |-> FALSE, dialogs |-> <<>>]

\* no playback, no example and no word modal
MediaIdle ==
    /\ playback = NoPlayback
    /\ example = NoExample
    /\ modal = NoModal

\* no bookmark, no search, no report and no playback
OtherIdle ==
    /\ MediaIdle
    /\ bookmarks = <<>>
    /\ instances = 1
    /\ lastToggle = NoToggle
    /\ search = NoSearch
    /\ report = NoReport

---------------------------------------------------------------------------
(* Operations of the service *)

\* a subscriber of dataDict$ receives the stored array, sorted in place
DataDict ==
    /\ dictionary_data' = ArraySort(dictionary_data)
    /\ view' = [op |-> "dataDict", n |-> 0, value |-> dictionary_data']
    /\ UNCHANGED <<loaded, browseAudio, emits, configVars, otherVars>>
    /\ UNCHANGED browseVars
    /\ UNCHANGED mediaVars

\* a subscriber of getRandom$(no_random) receives a truncated shuffled copy
GetRandom ==
    \E no_random \in 0..(MaxLen + 1) :
      \E r \in ValidDraws(Len(dictionary_data)) :
        /\ view' = [op |-> "getRandom", n |-> no_random,
                    value |-> getRandom(dictionary_data, no_random, r)]
        /\ UNCHANGED <<dictionary_data, loaded, browseAudio, emits, configVars, otherVars>>
        /\ UNCHANGED browseVars
        /\ UNCHANGED mediaVars

\* a subscriber of getSlice$(start_index, no_slice) receives a slice
GetSlice ==
    \E start_index \in 0..MaxLen, no_slice \in 1..2 :
        /\ view' = [op |-> "getSlice", n |-> start_index,
                    value |-> getSlice(dictionary_data, start_index, no_slice)]
        /\ UNCHANGED <<dictionary_data, loaded, browseAudio, emits, configVars, otherVars>>
        /\ UNCHANGED browseVars
        /\ UNCHANGED mediaVars

\* a subscriber of categories$ receives the mapping of the categories
Categories ==
    /\ view' = [op |-> "categories", n |-> 0,
                value |-> categories(dictionary_data, browseAudio)]
    /\ UNCHANGED <<dictionary_data, loaded, browseAudio, emits, configVars, otherVars>>
    /\ UNCHANGED browseVars
    /\ UNCHANGED mediaVars

\* a subscriber of allAudioEntries$ receives the entries that have audio
AllAudioEntries ==
    /\ view' = [op |-> "allAudioEntries", n |-> 0,
                value |-> allAudioEntries(dictionary_data)]
    /\ UNCHANGED <<dictionary_data, loaded, browseAudio, emits, configVars, otherVars>>
    /\ UNCHANGED browseVars
    /\ UNCHANGED mediaVars

InitSort ==
    /\ loaded \in SortInputs
    /\ dictionary_data = loaded
    /\ browseAudio = FALSE
    /\ view = NoView
    /\ emits = 0
    /\ BrowseNotConstructed
    /\ ConfigIdle
    /\ OtherIdle

NextSort == DataDict \/ GetRandom \/ GetSlice

SortSpec == InitSort /\ [][NextSort]_vars

InitCat ==
    /\ loaded \in CatInputs(MaxCatLen) \cup AudioInputs(MaxCatLen)
    /\ dictionary_data = loaded
    /\ browseAudio \in BOOLEAN
    /\ view = NoView
    /\ emits = 0
    /\ BrowseNotConstructed
    /\ ConfigIdle
    /\ OtherIdle

NextCat == Categories \/ AllAudioEntries

CatSpec == InitCat /\ [][NextCat]_vars

---------------------------------------------------------------------------
(* BrowseComponent *)

DefaultShown == 8

\* entries.slice(i, i + x)
getXFrom(i, entries, x) == Slice(entries, i, ToInteger(NumAdd(Num(i), x)))

\* the route.params handler up to its branch: parseInt(params.start ?? 0)
\* clamped into [0, length - 1]
routeHandler(start_param, entries) ==
    LET start == ParseInt(IF start_param = Undefined
                          THEN NumToString(Num(0)) ELSE start_param.s)
        clamped == MathMax(Num(0), MathMin(start, Num(Len(entries) - 1)))
    IN  [navigate |-> ~StrictEquals(start, clamped), clamped |-> clamped]

\* the route.queryParams handler
queryHandler(query, shown) ==
    IF query = Undefined THEN shown ELSE ParseInt(query.s)

\* the index of the first entry of the collection that starts with the letter
FirstWithLetter(entries, letterIndex) ==
    CHOOSE i \in DOMAIN entries :
        /\ entries[i].sorting_form[1] = letterIndex
        /\ \A j \in 1..(i - 1) : entries[j].sorting_form[1] # letterIndex

\* the :start parameters a user can put into the URL: none, in range,
\* beyond the end, negative, not a number, and numbers in other spellings
Params ==
    {Undefined, Str(<<"0">>), Str(<<"1">>), Str(<<"9">>), Str(<<"-", "2">>),
     Str(<<"a">>), Str(<<"0", "1">>), Str(<<"1", "a">>)}

\* the default_shown query parameters of the initial URL
InitialQueries == {Undefined, Str(<<"1">>)}
Queries == {Str(<<"2">>), Str(<<"0">>), Str(<<"a">>)}

\* collections whose entries differ in their first letter and source
BrowseFields == {<<0>>, <<1>>} \X {S_s1, S_s2}

BrowseInputs ==
    UNION {{[i \in 1..k |-> Entry(i, f[i][1], f[i][2], Undefined, Absent)] :
               f \in [1..k -> BrowseFields]} : k \in 0..MaxBrowseLen}

\* router.navigate([x], { relativeTo: this.route.parent }) called by the user
\* interface: the navigation is delivered later and replaces a pending one
Navigate(x) ==
    /\ pendingNav' = [pending |-> TRUE, target |-> NumToString(x)]
    /\ redirects' = 0

\* the route.params handler, run when the route emits start_param
HandleRoute(start_param, redirected) ==
    LET h == routeHandler(start_param, currentEntries)
    IN  IF h.navigate
        THEN /\ pendingNav' = [pending |-> TRUE, target |-> NumToString(h.clamped)]
             /\ redirects' = redirected + 1
             /\ UNCHANGED <<startIndex, currentX>>
        ELSE /\ pendingNav' = NoNav
             /\ redirects' = redirected
             /\ startIndex' = h.clamped.v
             /\ currentX' = getXFrom(h.clamped.v, currentEntries, default_shown)

\* the user opens a URL with another :start parameter
UserNavigate ==
    \E start_param \in Params :
        /\ selectedCategory # <<>>
        /\ start_param # routeStart
        /\ routeStart' = start_param
        /\ HandleRoute(start_param, 0)
        /\ UNCHANGED <<currentEntries, selectedCategory, default_shown,
                       displayLetters, firstWordIndex>>
        /\ UNCHANGED serviceVars

\* the router completes the pending navigation; route.params emits only
\* when the parameter differs from the current one
Deliver ==
    /\ pendingNav.pending
    /\ IF Str(pendingNav.target) = routeStart
       THEN /\ pendingNav' = NoNav
            /\ UNCHANGED <<routeStart, redirects, startIndex, currentX>>
       ELSE /\ routeStart' = Str(pendingNav.target)
            /\ HandleRoute(Str(pendingNav.target), redirects)
    /\ UNCHANGED <<currentEntries, selectedCategory, default_shown,
                   displayLetters, firstWordIndex>>
    /\ UNCHANGED serviceVars

PrevX ==
    /\ selectedCategory # <<>>
    /\ IF NumLess(Num(0), NumSub(Num(startIndex), default_shown))
       THEN Navigate(NumSub(Num(startIndex), default_shown))
       ELSE Navigate(Num(0))
    /\ UNCHANGED <<currentEntries, currentX, startIndex, selectedCategory,
                   default_shown, routeStart, displayLetters, firstWordIndex>>
    /\ UNCHANGED serviceVars

\* a nextX that always goes one page further
NextX_pastEnd ==
    /\ selectedCategory # <<>>
    /\ Navigate(NumAdd(Num(startIndex), default_shown))
    /\ UNCHANGED <<currentEntries, currentX, startIndex, selectedCategory,
                   default_shown, routeStart, displayLetters, firstWordIndex>>
    /\ UNCHANGED serviceVars

NextX ==
    /\ selectedCategory # <<>>
    /\ IF NumLess(NumAdd(Num(startIndex), default_shown), Num(Len(currentEntries)))
       THEN Navigate(NumAdd(Num(startIndex), default_shown))
       ELSE Navigate(MathMax(NumSub(Num(Len(currentEntries)), default_shown), Num(0)))
    /\ UNCHANGED <<currentEntries, currentX, startIndex, selectedCategory,
                   default_shown, routeStart, displayLetters, firstWordIndex>>
    /\ UNCHANGED serviceVars

\* scrollTo(letter) for a letter of the alphabet that starts an entry
ScrollTo ==
    \E letterIndex \in 0..(NumLetters - 1) :
        /\ selectedCategory # <<>>
        /\ \E i \in DOMAIN currentEntries :
              currentEntries[i].sorting_form[1] = letterIndex
        /\ Navigate(Num(FirstWithLetter(currentEntries, letterIndex) - 1))
        /\ UNCHANGED <<currentEntries, currentX, startIndex, selectedCategory,
                       default_shown, routeStart, displayLetters, firstWordIndex>>
        /\ UNCHANGED serviceVars

\* selectCategory(category) for 'words' or one of the category keys
SelectCategory ==
    \E category \in {S_words} \cup category_keys(dictionary_data, browseAudio) :
        /\ selectedCategory # <<>>
        /\ IF category = S_words
           THEN /\ dictionary_data' = ArraySort(dictionary_data)
                /\ currentEntries' = dictionary_data'
           ELSE /\ currentEntries' = categories(dictionary_data, browseAudio)[category]
                /\ UNCHANGED dictionary_data
        /\ selectedCategory' = category
        /\ startIndex' = 0
        /\ currentX' = getXFrom(0, currentEntries', default_shown)
        /\ redirects' = 0
        /\ LET l == letterInit(config.lettersInLanguage, currentEntries', firstWordIndex)
           IN  /\ displayLetters' = l.newLetters
               /\ firstWordIndex' = l.marks
        /\ UNCHANGED <<default_shown, routeStart, pendingNav>>
        /\ UNCHANGED <<loaded, browseAudio, view, emits, configVars, otherVars>>
        /\ UNCHANGED mediaVars

\* the service emits a new entry collection: _dictionary_data$.next(body);
\* the dataDict$ subscription of the browse view receives it sorted
Emit ==
    \E body \in BrowseInputs :
        /\ selectedCategory # <<>>
        /\ emits < MaxEmits
        /\ emits' = emits + 1
        /\ loaded' = body
        /\ dictionary_data' = ArraySort(body)
        /\ currentEntries' = dictionary_data'
        /\ currentX' = getXFrom(startIndex, currentEntries', default_shown)
        /\ redirects' = 0
        /\ LET l == letterInit(config.lettersInLanguage, currentEntries', NoMarks(body))
           IN  /\ displayLetters' = l.newLetters
               /\ firstWordIndex' = l.marks
        /\ UNCHANGED <<startIndex, selectedCategory, default_shown, routeStart,
                       pendingNav, browseAudio, view, configVars, otherVars>>
        /\ UNCHANGED mediaVars

\* the default_shown query parameter of the URL changes
QueryParams ==
    \E query \in Queries :
        /\ selectedCategory # <<>>
        /\ default_shown' = queryHandler(query, default_shown)
        /\ default_shown' # default_shown
        /\ UNCHANGED <<currentEntries, currentX, startIndex, selectedCategory,
                       routeStart, pendingNav, redirects, displayLetters,
                       firstWordIndex>>
        /\ UNCHANGED serviceVars

\* the state after the constructor, for the entry collection body, the
\* :start parameter start_param and the default_shown parameter query
Constructed(body, start_param, query) ==
    LET h == routeHandler(start_param, body)
        i == IF h.navigate THEN 0 ELSE h.clamped.v
    IN  /\ loaded = body
        /\ dictionary_data = ArraySort(body)
        /\ view = NoView
        /\ emits = 0
        /\ currentEntries = dictionary_data
        /\ selectedCategory = S_words
        /\ routeStart = start_param
        /\ default_shown = queryHandler(query, Num(DefaultShown))
        /\ startIndex = i
        /\ currentX = getXFrom(i, currentEntries, default_shown)
        /\ pendingNav = IF h.navigate
                        THEN [pending |-> TRUE, target |-> NumToString(h.clamped)]
                        ELSE NoNav
        /\ redirects = IF h.navigate THEN 1 ELSE 0
        /\ LET l == letterInit(config.lettersInLanguage, currentEntries, NoMarks(body))
           IN  /\ displayLetters = l.newLetters
               /\ firstWordIndex = l.marks

Init ==
    /\ browseAudio = FALSE
    /\ ConfigIdle
    /\ OtherIdle
    /\ \E body \in BrowseInputs, start_param \in Params, query \in InitialQueries :
          Constructed(body, start_param, query)

NextNav ==
    \/ UserNavigate
    \/ Deliver
    \/ PrevX
    \/ NextX
    \/ ScrollTo
    \/ SelectCategory
    \/ Emit

Next == NextNav \/ QueryParams

\* the browse view with a fixed page size
NavSpec == Init /\ [][NextNav]_vars

Spec == Init /\ [][Next]_vars

---------------------------------------------------------------------------
(* Pagination alone: prevX and nextX over a collection that does not change *)

\* the browse view opened with any of the page sizes the URL can ask for
InitPage ==
    /\ browseAudio = FALSE
    /\ ConfigIdle
    /\ OtherIdle
    /\ \E body \in BrowseInputs, start_param \in Params,
          query \in InitialQueries \cup Queries :
          Constructed(body, start_param, query)

NextPage == PrevX \/ NextX \/ Deliver

PageSpec == InitPage /\ [][NextPage]_vars

---------------------------------------------------------------------------
(* The letter index alone, over every collection and every alphabet *)

\* the template subscribes to displayLetters$: the callback runs over the
\* current collection
DisplayLetters ==
    /\ selectedCategory # <<>>
    /\ LET l == letterInit(config.lettersInLanguage, currentEntries, firstWordIndex)
       IN  /\ displayLetters' = l.newLetters
           /\ firstWordIndex' = l.marks
    /\ view' = [op |-> "displayLetters", n |-> 0, value |-> displayLetters']
    /\ UNCHANGED <<currentEntries, currentX, startIndex, selectedCategory,
                   default_shown, routeStart, pendingNav, redirects>>
    /\ UNCHANGED <<dictionary_data, loaded, browseAudio, emits, configVars, otherVars>>
    /\ UNCHANGED mediaVars

InitLetters ==
    /\ loaded \in LetterInputs
    /\ dictionary_data = loaded
    /\ browseAudio = FALSE
    /\ view = NoView
    /\ emits = 0
    /\ \E letters \in Alphabets :
          /\ config = Config(letters, "baz")
          /\ loadedConfig = config
    /\ remote = NoRemote
    /\ OtherIdle
    /\ currentEntries = loaded
    /\ currentX = getXFrom(0, currentEntries, Num(DefaultShown))
    /\ startIndex = 0
    /\ selectedCategory = S_words
    /\ default_shown = Num(DefaultShown)
    /\ routeStart = Undefined
    /\ pendingNav = NoNav
    /\ redirects = 0
    /\ displayLetters = <<>>
    /\ firstWordIndex = NoMarks(loaded)

NextLetters == DisplayLetters

LetterSpec == InitLetters /\ [][NextLetters]_vars

---------------------------------------------------------------------------
(* Bookmarks: WordModalComponent.toggleFav and favourited, and the store *)

\* an entry object: the object created for the entry when the entries were
\* created for the instance-th time; two objects are the same object only
\* when both fields agree, and stand for the same entry when entryID agrees
Instance(instance, entry) == [instance |-> instance, entryID |-> entry.entryID]

\* the entries of the runs with bookmarks
BookInputs == {[i \in 1..MaxBookLen |-> Entry(i, <<0>>, S_s1, Undefined, Absent)]}

\* the membership test of the store: by the stable id of the entry
isBookmarked(marked, entry) ==
    \E i \in DOMAIN marked : marked[i].entryID = entry.entryID

\* BookmarksService.toggleBookmark: if present, remove; else add
toggleBookmark(marked, entry) ==
    IF isBookmarked(marked, entry)
    THEN SelectSeq(marked, LAMBDA b : b.entryID # entry.entryID)
    ELSE Append(marked, entry)

\* a toggle that only ever adds
toggleFav_add(marked, entry) == Append(marked, entry)

\* toggleFav(entry) { this.bookmarkService.toggleBookmark(entry); }
toggleFav(marked, entry) == toggleBookmark(marked, entry)

\* favourited(entry): this.bookmarkService.bookmarks.value.indexOf(entry) > -1
favourited(marked, entry) == IndexOf(marked, entry) > -1

\* the user toggles the bookmark of an entry object of the current snapshot
ToggleFav ==
    \E i \in DOMAIN dictionary_data :
        LET entry == Instance(instances, dictionary_data[i])
            call == [entry |-> entry, before |-> bookmarks]
        IN  /\ bookmarks' = toggleFav(bookmarks, entry)
            /\ lastToggle' =
                  IF /\ lastToggle # <<>>
                     /\ lastToggle[Len(lastToggle)].entry = entry
                  THEN <<lastToggle[Len(lastToggle)], call>>
                  ELSE <<call>>
            /\ UNCHANGED <<instances, search, report>>
            /\ UNCHANGED <<dictionary_data, loaded, browseAudio, view, emits, configVars>>
            /\ UNCHANGED browseVars
            /\ UNCHANGED mediaVars

\* the service emits the entry collection again: _dictionary_data$.next(body)
\* with the entries of the body, which are new objects
Recreate ==
    /\ instances < MaxInstances
    /\ instances' = instances + 1
    /\ UNCHANGED <<bookmarks, lastToggle, search, report>>
    /\ UNCHANGED <<dictionary_data, loaded, browseAudio, view, emits, configVars>>
    /\ UNCHANGED browseVars
    /\ UNCHANGED mediaVars

InitBookmarks ==
    /\ loaded \in BookInputs
    /\ dictionary_data = loaded
    /\ browseAudio = FALSE
    /\ view = NoView
    /\ emits = 0
    /\ BrowseNotConstructed
    /\ ConfigIdle
    /\ OtherIdle

NextBookmarks == ToggleFav \/ Recreate

BookmarkSpec == InitBookmarks /\ [][NextBookmarks]_vars

---------------------------------------------------------------------------
(* The fuzzy search of the entry list: levenstein *)

\* the letters of the searched strings and the strings
SearchLetters == {"t", "h", "e"}
SearchStrings == SeqsOf(SearchLetters, 0, MaxStrLen)

S_teh == <<"t", "e", "h">>
S_the == <<"t", "h", "e">>

\* a cell in which a substitution costs nothing
cell_flat(same, diagonal, left, up) == diagonal

\* a cell that knows no substitution
cell_noSubstitution(same, diagonal, left, up) ==
    IF same THEN diagonal ELSE Min(left + 1, up + 1)

\* m[i][j] = b.charAt(i - 1) === a.charAt(j - 1) ? m[i - 1][j - 1]
\*         : min(m[i - 1][j - 1] + 1, min(m[i][j - 1] + 1, m[i - 1][j] + 1))
cell(same, diagonal, left, up) ==
    IF same THEN diagonal ELSE Min(diagonal + 1, Min(left + 1, up + 1))

\* the inner loop for (j = 1; j <= a.length; j++) over row i of the matrix:
\* row holds m[i][0..j-1], above holds m[i-1]; both are 1-based here
RECURSIVE fillRow(_, _, _, _, _)
fillRow(a, bi, above, row, j) ==
    IF j > Len(a) THEN row
    ELSE fillRow(a, bi, above,
                 Append(row, cell(bi = a[j], above[j], row[j], above[j + 1])),
                 j + 1)

\* the outer loop for (i = 1; i <= b.length; i++): the last row of the matrix
RECURSIVE fillMatrix(_, _, _, _)
fillMatrix(a, b, above, i) ==
    IF i > Len(b) THEN above
    ELSE fillMatrix(a, b, fillRow(a, b[i], above, <<i>>, 1), i + 1)

\* levenstein(string1, string2): m[0][j] = j, m[i][0] = i, then the loops
levenstein(string1, string2) ==
    LET a == string1
        b == string2
    IN  IF a = <<>> \/ b = <<>>
        THEN Len(IF b # <<>> THEN b ELSE a)
        ELSE fillMatrix(a, b, [j \in 1..(Len(a) + 1) |-> j - 1], 1)[Len(a) + 1]

\* the search compares the search term with a word
Levenstein ==
    /\ ~search.called
    /\ search' = [search EXCEPT !.called = TRUE,
                                !.result = levenstein(search.string1, search.string2)]
    /\ UNCHANGED <<bookmarks, instances, lastToggle, report>>
    /\ UNCHANGED <<dictionary_data, loaded, browseAudio, view, emits, configVars>>
    /\ UNCHANGED browseVars
    /\ UNCHANGED mediaVars

InitSearch ==
    /\ dictionary_data = <<>>
    /\ loaded = <<>>
    /\ browseAudio = FALSE
    /\ view = NoView
    /\ emits = 0
    /\ BrowseNotConstructed
    /\ ConfigIdle
    /\ bookmarks = <<>>
    /\ instances = 1
    /\ lastToggle = NoToggle
    /\ report = NoReport
    /\ MediaIdle
    /\ \E string1, string2 \in SearchStrings :
          search = [NoSearch EXCEPT !.string1 = string1, !.string2 = string2]

NextSearch == Levenstein

SearchSpec == InitSearch /\ [][NextSearch]_vars

---------------------------------------------------------------------------
(* The report endpoint: report.php, in its two variants *)

\* strings of the endpoint are sequences of pieces, so that a prefix of a
\* string is a prefix of its sequence
O_ecolingui == <<"https://", "michif.ecolingui.ca">>
O_dictionary == <<"https://", "dictionary.michif.org">>
O_lan == <<"http://192.168", ".1.2">>
O_other == <<"https://", "example.org">>

\* $_SERVER["HTTP_ORIGIN"] and $_GET["id"] of the requests
Origins == {Absent, Str(O_ecolingui), Str(O_dictionary), Str(O_lan), Str(O_other)}
Ids == {Absent, Str(<<>>), Str(<<"1">>), Str(<<"a", " ", "b">>)}

Maintainer == "dictionary@p2wilr.org"

\* isset($x)
isset(x) == x.t # "absent"

\* str_starts_with($haystack, $needle); an unset haystack starts with nothing
str_starts_with(haystack, needle) ==
    /\ isset(haystack)
    /\ Len(needle) <= Len(haystack.s)
    /\ SubSeq(haystack.s, 1, Len(needle)) = needle

\* urlencode over the characters of the ids: a space becomes a plus sign
urlencode(str) == [i \in DOMAIN str |-> IF str[i] = " " THEN "+" ELSE str[i]]

\* mail("dictionary@p2wilr.org", $subject, $message)
mail(id) == [to |-> Maintainer, subject |-> <<"Review entry ">> \o urlencode(id.s)]

\* the response of a script that ended in a fatal error: 500, or 200 when
\* the server displays errors
FatalStatus == {500, 200}

\* the Access-Control-Allow-Origin header the earlier variant sends
cors_earlier(origin) ==
    IF isset(origin) /\ origin.s = O_ecolingui THEN Str(O_ecolingui)
    ELSE IF str_starts_with(origin, <<"http://192.168">>) THEN origin
    ELSE Str(O_dictionary)

\* the earlier variant: the origin only selects the CORS header; a request
\* without id calls the undefined function http_reponse_code and the script
\* dies; the possible responses [status, cors, mails]
report_earlier(origin, id) ==
    IF ~isset(id)
    THEN {[status |-> st, cors |-> cors_earlier(origin), mails |-> <<>>] :
             st \in FatalStatus}
    ELSE {[status |-> 200, cors |-> cors_earlier(origin), mails |-> <<mail(id)>>]}

\* the origin-checking variant
report_restricted(origin, id) ==
    IF ~isset(origin) THEN {[status |-> 401, cors |-> Absent, mails |-> <<>>]}
    ELSE IF origin.s # O_ecolingui /\ origin.s # O_dictionary
    THEN {[status |-> 401, cors |-> Absent, mails |-> <<>>]}
    ELSE IF ~isset(id) THEN {[status |-> 400, cors |-> origin, mails |-> <<>>]}
    ELSE {[status |-> 200, cors |-> origin, mails |-> <<mail(id)>>]}

\* the endpoint serves a request
Request ==
    \E origin \in Origins, id \in Ids :
      \E response \in IF report.variant = "earlier"
                      THEN report_earlier(origin, id)
                      ELSE report_restricted(origin, id) :
        /\ report.requests < MaxRequests
        /\ report' = [report EXCEPT !.requests = @ + 1,
                                    !.origin = origin,
                                    !.id = id,
                                    !.status = response.status,
                                    !.cors = response.cors,
                                    !.sent = Len(response.mails),
                                    !.mails = @ \o response.mails]
        /\ UNCHANGED <<bookmarks, instances, lastToggle, search>>
        /\ UNCHANGED <<dictionary_data, loaded, browseAudio, view, emits, configVars>>
        /\ UNCHANGED browseVars
        /\ UNCHANGED mediaVars

InitReport ==
    /\ dictionary_data = <<>>
    /\ loaded = <<>>
    /\ browseAudio = FALSE
    /\ view = NoView
    /\ emits = 0
    /\ BrowseNotConstructed
    /\ ConfigIdle
    /\ bookmarks = <<>>
    /\ instances = 1
    /\ lastToggle = NoToggle
    /\ search = NoSearch
    /\ MediaIdle
    /\ \E variant \in {"earlier", "restricted"} :
          report = [NoReport EXCEPT !.variant = variant]

NextReport == Request

ReportSpec == InitReport /\ [][NextReport]_vars

---------------------------------------------------------------------------
(* The remote fetches of the service (MTDService.constructor) *)

\* the configurations the remote end can answer with
RemoteConfigs ==
    {Config(letters, build) :
        letters \in {a \in Alphabets : Len(a) = NumLetters}, build \in {"baz", "qux"}}

\* the outcomes of an HTTP request: a response with status 200, a response
\* with another 2xx status (given to the subscriber), and a failure (an
\* error status or no connection: given to the error handler, of which the
\* subscriber has none)
Outcomes == {"200", "204", "error"}

\* remote_config$.subscribe(x => ...): the answer to the configuration request
ConfigResponse ==
    \E outcome \in Outcomes, body \in RemoteConfigs :
        /\ remote.config = "pending"
        /\ IF outcome = "200"
           THEN /\ config' = body
                /\ remote' = [config |-> "ok", data |-> "pending"]
           ELSE /\ remote' = [config |-> "failed", data |-> "none"]
                /\ UNCHANGED config
        /\ UNCHANGED <<loadedConfig, otherVars>>
        /\ UNCHANGED <<dictionary_data, loaded, browseAudio, view, emits>>
        /\ UNCHANGED browseVars
        /\ UNCHANGED mediaVars

\* remote_data$.subscribe(x => ...): the answer to the data request
DataResponse ==
    \E outcome \in Outcomes, body \in BrowseInputs :
        /\ remote.data = "pending"
        /\ IF outcome = "200"
           THEN /\ dictionary_data' = body
                /\ remote' = [remote EXCEPT !.data = "ok"]
           ELSE /\ remote' = [remote EXCEPT !.data = "failed"]
                /\ UNCHANGED dictionary_data
        /\ UNCHANGED <<config, loadedConfig, otherVars>>
        /\ UNCHANGED <<loaded, browseAudio, view, emits>>
        /\ UNCHANGED browseVars
        /\ UNCHANGED mediaVars

\* the state after the constructor: the configuration request is in flight
InitFetch ==
    /\ loaded \in BrowseInputs
    /\ dictionary_data = loaded
    /\ browseAudio = FALSE
    /\ view = NoView
    /\ emits = 0
    /\ BrowseNotConstructed
    /\ config = TESTCONFIG
    /\ loadedConfig = TESTCONFIG
    /\ remote = [config |-> "pending", data |-> "none"]
    /\ OtherIdle

NextFetch == ConfigResponse \/ DataResponse

FetchSpec == InitFetch /\ [][NextFetch]_vars

---------------------------------------------------------------------------
(* The default audio of an entry: EntryListComponent.playDefaultAudio *)

S_reported == <<"r", "e", "p", "o", "r", "t", "e", "d">>

S_assets == <<"a", "s", "s", "e", "t", "s", "/">>

\* the configurations of the runs with audio: with and without audio_path
AudioConfigs == {TESTCONFIG, [TESTCONFIG EXCEPT !.audio_path = Str(S_assets)]}

\* playDefaultAudio(entry) up to new Audio(defaultAudio): the path, or the
\* TypeError of entry.audio.filter, which only arrays have, and of
\* [0].filename when the filter leaves nothing
playDefaultAudio(cfg, entry) ==
    LET audioPrefix == IF cfg.audio_path.t # "absent" THEN cfg.audio_path.s ELSE <<>>
    IN  IF entry.audio.t # "array"
        THEN [threw |-> TRUE, path |-> <<>>]
        ELSE LET files == SelectSeq(entry.audio.files,
                                    LAMBDA audioFile : Truthy(audioFile.filename))
             IN  IF files = <<>>
                 THEN [threw |-> TRUE, path |-> <<>>]
                 ELSE [threw |-> FALSE, path |-> audioPrefix \o files[1].filename.s]

\* the user presses the play button of an entry, shown when hasAudio(entry)
PlayDefaultAudio ==
    \E i \in DOMAIN dictionary_data :
        LET entry == dictionary_data[i]
            call == playDefaultAudio(config, entry)
        IN  /\ hasAudio(entry)
            /\ playback' = [state |-> IF call.threw THEN "threw" ELSE "playing",
                            entryID |-> entry.entryID,
                            path |-> call.path,
                            notice |-> Absent]
            /\ UNCHANGED <<example, modal>>
            /\ UNCHANGED <<dictionary_data, loaded, browseAudio, view, emits,
                           configVars, otherVars>>
            /\ UNCHANGED browseVars

\* the audio resource cannot be loaded: audio.onerror calls fileNotFound(path)
AudioError ==
    /\ playback.state = "playing"
    /\ playback' = [playback EXCEPT !.state = "failed", !.notice = Str(playback.path)]
    /\ UNCHANGED <<example, modal>>
    /\ UNCHANGED <<dictionary_data, loaded, browseAudio, view, emits,
                   configVars, otherVars>>
    /\ UNCHANGED browseVars

InitPlay ==
    /\ loaded \in AudioInputs(MaxPlayLen)
    /\ dictionary_data = loaded
    /\ browseAudio = FALSE
    /\ view = NoView
    /\ emits = 0
    /\ BrowseNotConstructed
    /\ config \in AudioConfigs
    /\ loadedConfig = config
    /\ remote = NoRemote
    /\ OtherIdle

NextPlay == PlayDefaultAudio \/ AudioError

PlaySpec == InitPlay /\ [][NextPlay]_vars

---------------------------------------------------------------------------
(* The word modal: an example sentence highlighted while its audio plays.
   example.definition holds the words of the sentence, each with its active
   flag; example.starts holds audio.starts, the start of every word but the
   first in hundredths of a second.  playAudio compares currentTime with
   starts[idx] * 0.01, both in seconds; here both are in hundredths.  Every
   call of playAudio makes an Audio element of its own, with the handlers'
   variable active of its own: a player. *)

\* the elements of S in increasing order
Ascending(S) ==
    CHOOSE seq \in [1..Cardinality(S) -> S] :
        \A i, j \in 1..Cardinality(S) : i < j => seq[i] < seq[j]

\* examples of up to MaxWords words whose starts lie within the recording,
\* aligned (one start less than words) or not
Examples ==
    { [definition |-> [k \in 1..n |-> [active |-> FALSE]],
       starts |-> Ascending(S),
       players |-> <<>>] : n \in 1..MaxWords, S \in SUBSET (1..(MaxTime - 1)) }

\* starts.length == example.definition.length - 1
aligned(ex) == Len(ex.starts) = Len(ex.definition) - 1

\* audiotag.onplaying
onplaying(definition) ==
    [definition |-> [definition EXCEPT ![1].active = TRUE], active |-> 0]

\* the for loop of audiotag.ontimeupdate from idx on: the words it clears and
\* the idx it stops at
RECURSIVE timeupdateLoop(_, _, _, _)
timeupdateLoop(definition, starts, currentTime, idx) ==
    IF idx < Len(starts)
    THEN LET cleared == [definition EXCEPT ![idx + 1].active = FALSE]
         IN  IF currentTime < starts[idx + 1]
             THEN [definition |-> cleared, idx |-> idx]
             ELSE timeupdateLoop(cleared, starts, currentTime, idx + 1)
    ELSE [definition |-> definition, idx |-> idx]

\* audiotag.ontimeupdate
ontimeupdate(definition, starts, active, currentTime) ==
    LET loop == timeupdateLoop(definition, starts, currentTime, 0)
    IN  IF loop.idx # active
        THEN [definition |-> [loop.definition EXCEPT ![loop.idx + 1].active = TRUE],
              active |-> loop.idx]
        ELSE [definition |-> loop.definition, active |-> active]

\* an onended that leaves the words as they are
onended_keep(definition, active) == definition

\* audiotag.onended
onended(definition, active) == [definition EXCEPT ![active + 1].active = FALSE]

\* playAudio(example, audio): a new Audio element, with the three handlers
\* when the alignment fits the sentence, and play()
PlayAudio ==
    /\ example.definition # <<>>
    /\ Len(example.players) < MaxPlayers
    /\ example' = [example EXCEPT !.players =
                      Append(@, [phase |-> "loading", handlers |-> aligned(example),
                                 active |-> 0, currentTime |-> 0])]
    /\ UNCHANGED <<playback, modal>>
    /\ UNCHANGED <<dictionary_data, loaded, browseAudio, view, emits,
                   configVars, bookmarks, instances, lastToggle, search, report>>
    /\ UNCHANGED browseVars

\* the playing event of a player: playback starts, or resumes after it
\* waited for data
Playing(p) ==
    LET player == example.players[p]
        h == onplaying(example.definition)
    IN  /\ player.phase \in {"loading", "playing"}
        /\ example' = IF player.handlers
                      THEN [example EXCEPT !.definition = h.definition,
                                           !.players[p].phase = "playing",
                                           !.players[p].active = h.active]
                      ELSE [example EXCEPT !.players[p].phase = "playing"]
        /\ UNCHANGED <<playback, modal>>
        /\ UNCHANGED <<dictionary_data, loaded, browseAudio, view, emits,
                       configVars, bookmarks, instances, lastToggle, search, report>>
        /\ UNCHANGED browseVars

\* a timeupdate event of a playing player, before the end of the recording,
\* at the position t
TimeUpdate(p, t) ==
    LET player == example.players[p]
        h == ontimeupdate(example.definition, example.starts, player.active, t)
    IN  /\ player.phase = "playing"
        /\ example' = IF player.handlers
                      THEN [example EXCEPT !.definition = h.definition,
                                           !.players[p].active = h.active,
                                           !.players[p].currentTime = t]
                      ELSE [example EXCEPT !.players[p].currentTime = t]
        /\ UNCHANGED <<playback, modal>>
        /\ UNCHANGED <<dictionary_data, loaded, browseAudio, view, emits,
                       configVars, bookmarks, instances, lastToggle, search, report>>
        /\ UNCHANGED browseVars

\* a player reaches the end of the recording: the media element fires
\* timeupdate at the end position and then ended, in one task
Ended(p) ==
    LET player == example.players[p]
        h == ontimeupdate(example.definition, example.starts, player.active, MaxTime)
    IN  /\ player.phase = "playing"
        /\ example' = IF player.handlers
                      THEN [example EXCEPT !.definition = onended(h.definition, h.active),
                                           !.players[p].phase = "ended",
                                           !.players[p].active = h.active,
                                           !.players[p].currentTime = MaxTime]
                      ELSE [example EXCEPT !.players[p].phase = "ended",
                                           !.players[p].currentTime = MaxTime]
        /\ UNCHANGED <<playback, modal>>
        /\ UNCHANGED <<dictionary_data, loaded, browseAudio, view, emits,
                       configVars, bookmarks, instances, lastToggle, search, report>>
        /\ UNCHANGED browseVars

\* the word modal opened on an example of an entry
InitHighlight ==
    /\ loaded = <<>>
    /\ dictionary_data = loaded
    /\ browseAudio = FALSE
    /\ view = NoView
    /\ emits = 0
    /\ BrowseNotConstructed
    /\ ConfigIdle
    /\ playback = NoPlayback
    /\ modal = NoModal
    /\ bookmarks = <<>>
    /\ instances = 1
    /\ lastToggle = NoToggle
    /\ search = NoSearch
    /\ report = NoReport
    /\ example \in Examples

NextHighlight ==
    \/ PlayAudio
    \/ \E p \in DOMAIN example.players : Playing(p)
    \/ \E p \in DOMAIN example.players, t \in 0..(MaxTime - 1) : TimeUpdate(p, t)
    \/ \E p \in DOMAIN example.players : Ended(p)

HighlightSpec == InitHighlight /\ [][NextHighlight]_vars

---------------------------------------------------------------------------
(* The word modal as a whole: its example and its report dialogs.
   modal.entry tells whether the modal was given an entry (data.entry),
   modal.dialogs holds every report dialog opened from it: "open", closed
   by send ("reported") or closed without a result ("dismissed"). *)

\* openReport()
OpenReport ==
    /\ modal.open
    /\ Len(modal.dialogs) < MaxDialogs
    /\ modal' = IF ~modal.entry \/ modal.reported
                THEN modal
                ELSE [modal EXCEPT !.dialogs = Append(@, "open")]
    /\ UNCHANGED <<playback, example>>
    /\ UNCHANGED <<dictionary_data, loaded, browseAudio, view, emits,
                   configVars, bookmarks, instances, lastToggle, search, report>>
    /\ UNCHANGED browseVars

\* the subscriber of dialogRef.afterClosed()
afterClosed(reported, result) == IF Truthy(result) THEN TRUE ELSE reported

\* the user sends the report of the dialog d: dialogRef.close('reported')
Send(d) ==
    /\ modal.dialogs[d] = "open"
    /\ modal' = [modal EXCEPT !.dialogs[d] = "reported",
                              !.reported = afterClosed(@, Str(S_reported))]
    /\ UNCHANGED <<playback, example>>
    /\ UNCHANGED <<dictionary_data, loaded, browseAudio, view, emits,
                   configVars, bookmarks, instances, lastToggle, search, report>>
    /\ UNCHANGED browseVars

\* the dialog d is closed without a result (escape, click on the backdrop)
Dismiss(d) ==
    /\ modal.dialogs[d] = "open"
    /\ modal' = [modal EXCEPT !.dialogs[d] = "dismissed",
                              !.reported = afterClosed(@, Undefined)]
    /\ UNCHANGED <<playback, example>>
    /\ UNCHANGED <<dictionary_data, loaded, browseAudio, view, emits,
                   configVars, bookmarks, instances, lastToggle, search, report>>
    /\ UNCHANGED browseVars

\* the word modal opened with an entry and one of its examples, or without
InitModal ==
    /\ loaded = <<>>
    /\ dictionary_data = loaded
    /\ browseAudio = FALSE
    /\ view = NoView
    /\ emits = 0
    /\ BrowseNotConstructed
    /\ ConfigIdle
    /\ playback = NoPlayback
    /\ bookmarks = <<>>
    /\ instances = 1
    /\ lastToggle = NoToggle
    /\ search = NoSearch
    /\ report = NoReport
    /\ \E entry \in BOOLEAN :
          /\ modal = [NoModal EXCEPT !.open = TRUE, !.entry = entry]
          /\ example \in IF entry THEN Examples ELSE {NoExample}

NextModal ==
    \/ NextHighlight
    \/ OpenReport
    \/ \E d \in DOMAIN modal.dialogs : Send(d)
    \/ \E d \in DOMAIN modal.dialogs : Dismiss(d)

ModalSpec == InitModal /\ [][NextModal]_vars

---------------------------------------------------------------------------
(* Properties of the sorted view and of the random sample *)

\* lexicographic order on integer sequences
RECURSIVE LexLeq(_, _)
LexLeq(s, t) ==
    IF s = <<>> THEN TRUE
    ELSE IF t = <<>> THEN FALSE
    ELSE IF Head(s) # Head(t) THEN Head(s) < Head(t)
    ELSE LexLeq(Tail(s), Tail(t))

Count(a, e) == Cardinality({i \in DOMAIN a : a[i] = e})

SameMultiset(a, b) == \A e \in Range(a) \cup Range(b) : Count(a, e) = Count(b, e)

\* C1: the sorted view is ordered by sorting_form compared lexicographically
\* as integer sequences: the entry at position i <= the entry at position j
\* for all i < j, all elements of the sequences being compared.
C1_SortedLexicographically ==
    view.op = "dataDict" =>
        \A i, j \in DOMAIN view.value :
            i < j => LexLeq(view.value[i].sorting_form, view.value[j].sorting_form)

\* C2: the sorted view is a permutation of the loaded collection: the same
\* multiset of entries, none added, dropped or duplicated.
C2_SortedIsPermutation ==
    view.op = "dataDict" =>
        /\ Len(view.value) = Len(loaded)
        /\ SameMultiset(view.value, loaded)

C2_Witness ==
    /\ view.op = "dataDict"
    /\ Len(loaded) = MaxLen
    /\ view.value # loaded
    /\ \E i, j \in DOMAIN loaded : i < j /\ compareFn(loaded[i], loaded[j]) = 0

\* C3: sorting is stable: two entries whose sort keys compare equal appear
\* in the sorted view in the same relative order as in the loaded collection.
C3_SortIsStable ==
    view.op = "dataDict" =>
        \A i, j \in DOMAIN loaded :
            (i < j /\ compareFn(loaded[i], loaded[j]) = 0) =>
                \E p, q \in DOMAIN view.value :
                    /\ p < q
                    /\ view.value[p] = loaded[i]
                    /\ view.value[q] = loaded[j]

C3_Witness ==
    /\ view.op = "dataDict"
    /\ view.value # loaded
    /\ \E i, j \in DOMAIN loaded :
          /\ i < j
          /\ compareFn(loaded[i], loaded[j]) = 0
          /\ loaded[i].sorting_form # loaded[j].sorting_form

\* C4: getRandom$(n) over a collection of size N >= n yields exactly n
\* entries, all taken from the collection and no position of it twice,
\* whatever the random draws.
C4_RandomSampleDistinct ==
    (view.op = "getRandom" /\ view.n <= Len(dictionary_data)) =>
        /\ Len(view.value) = view.n
        /\ \A i \in DOMAIN view.value :
              \E p \in DOMAIN dictionary_data : dictionary_data[p] = view.value[i]
        /\ \A i, j \in DOMAIN view.value :
              i # j => view.value[i].entryID # view.value[j].entryID

C4_Witness ==
    /\ view.op = "getRandom"
    /\ view.n >= 2
    /\ view.n < Len(dictionary_data)
    /\ view.value # SubSeq(dictionary_data, 1, view.n)

---------------------------------------------------------------------------
(* Properties of hasAudio and of the categories *)

NonEmptyString(x) == x.t = "string" /\ x.s # <<>>

\* the audio field is a non-empty single attachment, or a sequence with at
\* least one attachment that has a non-empty filename
AudioFieldHasAudio(audio) ==
    \/ NonEmptyString(audio)
    \/ audio.t = "object"
    \/ /\ audio.t = "array"
       /\ \E i \in DOMAIN audio.files : NonEmptyString(audio.files[i].filename)

NumWithAudio(entries) ==
    Cardinality({i \in DOMAIN entries : AudioFieldHasAudio(entries[i].audio)})

\* the subsequence of the entries that satisfy P, by position
RECURSIVE SubsequenceWhere(_, _)
SubsequenceWhere(entries, keep) ==
    IF entries = <<>> THEN <<>>
    ELSE (IF Head(entries).entryID \in keep THEN <<Head(entries)>> ELSE <<>>)
            \o SubsequenceWhere(Tail(entries), keep)

IdsWhereAudio(entries) ==
    {entries[i].entryID : i \in {j \in DOMAIN entries : AudioFieldHasAudio(entries[j].audio)}}

IdsWhereSource(entries, key) ==
    {entries[i].entryID : i \in {j \in DOMAIN entries : entries[j].source = key}}

\* C7: the categories have an 'audio' key iff at least one entry has audio
\* and (the audio entries are fewer than 0.75 of all entries or the force
\* flag is set); when present its value is exactly the entries with audio.
C7_AudioKeyIff ==
    view.op = "categories" =>
        /\ (S_audio \in DOMAIN view.value) <=>
              /\ NumWithAudio(dictionary_data) >= 1
              /\ \/ 4 * NumWithAudio(dictionary_data) < 3 * Len(dictionary_data)
                 \/ browseAudio
        /\ (S_audio \in DOMAIN view.value) =>
              view.value[S_audio] =
                  SubsequenceWhere(dictionary_data, IdsWhereAudio(dictionary_data))

\* C8: every distinct source value is a key of the categories and the value
\* under it is exactly the subsequence of entries with that source, also
\* when a theme or the name 'audio' coincides with a source value.
C8_KeyedBySource ==
    view.op = "categories" =>
        \A i \in DOMAIN dictionary_data :
            /\ dictionary_data[i].source \in DOMAIN view.value
            /\ view.value[dictionary_data[i].source] =
                  SubsequenceWhere(dictionary_data,
                      IdsWhereSource(dictionary_data, dictionary_data[i].source))

\* C9: the categories have one key per distinct lowercased theme, and every
\* entry with a non-empty string theme is in the category keyed by the
\* lowercase form of its theme, whatever the letter case of the stored theme.
C9_ThemeCategories ==
    view.op = "categories" =>
        \A i \in DOMAIN dictionary_data :
            NonEmptyString(dictionary_data[i].theme) =>
                /\ ToLowerCase(dictionary_data[i].theme.s) \in DOMAIN view.value
                /\ dictionary_data[i] \in
                      Range(view.value[ToLowerCase(dictionary_data[i].theme.s)])

\* C10: hasAudio(entry) is true iff the audio field is a non-empty single
\* attachment or a sequence with at least one attachment with a non-empty
\* filename; false when absent, empty, or all attachments lack a filename.
C10_HasAudioIff ==
    view.op = "allAudioEntries" =>
        \A i \in DOMAIN dictionary_data :
            (dictionary_data[i] \in Range(view.value))
                <=> AudioFieldHasAudio(dictionary_data[i].audio)

C10_Witness ==
    /\ view.op = "allAudioEntries"
    /\ \E i, j \in DOMAIN dictionary_data :
          /\ dictionary_data[i].audio.t = "array"
          /\ Len(dictionary_data[i].audio.files) = 2
          /\ dictionary_data[i] \in Range(view.value)
          /\ ~NonEmptyString(dictionary_data[i].audio.files[1].filename)
          /\ dictionary_data[j].audio.t = "array"
          /\ dictionary_data[j].audio.files # <<>>
          /\ dictionary_data[j] \notin Range(view.value)

---------------------------------------------------------------------------
(* Properties of the browse view *)

\* C5: with a non-empty current collection the displayed window holds at
\* least one entry, in every state reached by route changes, prevX, nextX,
\* scrollTo, category selections and snapshot emissions.
C5_WindowNeverEmpty ==
    (selectedCategory # <<>> /\ Len(currentEntries) > 0) => Len(currentX) > 0

\* the starts a request may end on: the clamp of a numeric start, and some
\* valid start for a start that is not a number
BoundaryFor(start, len) ==
    IF start.nan THEN 0..Max(len - 1, 0)
    ELSE {Max(0, Min(start.v, len - 1))}

RequestedStart(start_param) ==
    ParseInt(IF start_param = Undefined THEN <<"0">> ELSE start_param.s)

\* C6: whenever the route delivers a start, the cursor becomes the start
\* clamped into [0, length-1] of the current collection (0 if it is empty),
\* either at once or through one redirect to that boundary; this holds for
\* every start, negative and non-numeric ones included.
C6_OutOfRangeRedirected ==
    [][(routeStart' # routeStart) =>
          \E c \in BoundaryFor(RequestedStart(routeStart'), Len(currentEntries)) :
              \/ ~pendingNav'.pending /\ startIndex' = c
              \/ /\ pendingNav'.pending
                 /\ pendingNav'.target = NatToString(c)
                 /\ redirects' <= 1]_vars

---------------------------------------------------------------------------
(* Properties of the letter index *)

\* the collection has an entry whose sorting form starts with the index
SomeEntryStartsWith(entries, ind) ==
    \E i \in DOMAIN entries :
        /\ entries[i].sorting_form # <<>>
        /\ Head(entries[i].sorting_form) = ind

\* C11: the letter index over a collection is exactly the subsequence of the
\* configured alphabet, in alphabet order and without repetition, of the
\* letters whose alphabet position equals sorting_form[0] of at least one
\* entry of the collection; a letter never starts an entry exactly when it is
\* not in the letter index.
C11_LetterIndexIsAlphabetSubsequence ==
    view.op = "displayLetters" =>
        LET letters == config.lettersInLanguage
            position(letter) == (CHOOSE k \in DOMAIN letters : letters[k] = letter) - 1
        IN  /\ displayLetters =
                  SelectSeq(letters,
                            LAMBDA letter : SomeEntryStartsWith(currentEntries, position(letter)))
            /\ \A i, j \in DOMAIN displayLetters :
                  i # j => displayLetters[i] # displayLetters[j]
            /\ \A k \in DOMAIN letters :
                  letterNeverStarts(displayLetters, letters[k])
                      <=> ~SomeEntryStartsWith(currentEntries, k - 1)

\* a letter index that leaves out a letter of the alphabet although the letter
\* occurs later in a sorting form, and one that has every letter of a
\* two-letter alphabet
C11_Witness ==
    /\ view.op = "displayLetters"
    /\ Len(config.lettersInLanguage) = 2
    /\ Len(displayLetters) = 1
    /\ \E i \in DOMAIN currentEntries :
          /\ Len(currentEntries[i].sorting_form) = 2
          /\ config.lettersInLanguage[currentEntries[i].sorting_form[2] + 1]
                \notin Range(displayLetters)

---------------------------------------------------------------------------
(* Properties of the category selection *)

\* the letters of the alphabet that start an entry of the collection
LettersOf(letters, entries) ==
    SelectSeq(letters, LAMBDA letter : SomeEntryStartsWith(entries, IndexOf(letters, letter)))

\* the state selectCategory(category) leaves behind
SelectedIs(category) ==
    /\ selectedCategory' = category
    /\ startIndex' = 0
    /\ IF category = S_words
       THEN /\ SameMultiset(currentEntries', loaded)
            /\ Len(currentEntries') = Len(loaded)
            /\ \A i, j \in DOMAIN currentEntries' :
                  i < j => currentEntries'[i].sorting_form[1]
                               <= currentEntries'[j].sorting_form[1]
       ELSE currentEntries' = categories(dictionary_data, browseAudio)[category]
    /\ currentEntries' # <<>> =>
          /\ currentX' # <<>>
          /\ currentX'[1] = currentEntries'[1]
    /\ displayLetters' = LettersOf(config.lettersInLanguage, currentEntries')

\* C12: selecting a category resets the pagination cursor to 0 and makes the
\* current collection and the letter index those of the selected subset:
\* after selectCategory(c) the cursor is 0, the current collection is
\* categories[c] (the full sorted list for 'words'), the displayed window
\* starts at its first entry, and the letter index is that of the subset.
C12_SelectCategoryResets ==
    [][\A category \in {S_words} \cup category_keys(dictionary_data, browseAudio) :
          (SelectCategory /\ selectedCategory' = category) => SelectedIs(category)]_vars

---------------------------------------------------------------------------
(* Properties of the bookmarks *)

\* the stable ids of the bookmarked entries
BookmarkedIds(marked) == {marked[i].entryID : i \in DOMAIN marked}

C14_FavouritedByStableId ==
    \A i \in DOMAIN dictionary_data :
        LET entry == Instance(instances, dictionary_data[i])
        IN  isBookmarked(bookmarks, entry) => favourited(bookmarks, entry)

---------------------------------------------------------------------------
(* Properties of the fuzzy search *)

\* the edit distance: the least number of insertions, deletions and
\* substitutions of one character that turn s into t
RECURSIVE Distance(_, _)
Distance(s, t) ==
    IF s = <<>> THEN Len(t)
    ELSE IF t = <<>> THEN Len(s)
    ELSE Min(Distance(Tail(s), Tail(t)) + (IF Head(s) = Head(t) THEN 0 ELSE 1),
             Min(Distance(Tail(s), t) + 1, Distance(s, Tail(t)) + 1))

\* C15: levenstein returns the classic Levenshtein distance of its two
\* arguments, for every pair of strings over a bounded alphabet, the empty
\* string included; the distance is 0 exactly when the strings are equal,
\* and it is symmetric.
C15_LevensteinIsEditDistance ==
    search.called =>
        /\ search.result = Distance(search.string1, search.string2)
        /\ (search.result = 0) <=> (search.string1 = search.string2)
        /\ search.result = levenstein(search.string2, search.string1)

\* two different non-empty strings of different lengths, two edits apart
C15_Witness ==
    /\ search.called
    /\ search.string1 # <<>>
    /\ search.string2 # <<>>
    /\ Len(search.string1) # Len(search.string2)
    /\ search.result = 2

\* C16: the distance computed for "teh" and "the" is greater than 0 and at
\* most 1, so that the pair matches at threshold 1 and not at threshold 0.
C16_TehTheWithinOne ==
    (search.called /\ search.string1 = S_teh /\ search.string2 = S_the) =>
        search.result > 0 /\ search.result <= 1

\* C16, amended: the distance computed for "teh" and "the" is 2, so that the
\* pair matches at threshold 2 and at neither threshold 0 nor threshold 1.
C16_TehTheIsTwo ==
    (search.called /\ search.string1 = S_teh /\ search.string2 = S_the) =>
        search.result = 2

\* the search has compared "teh" with "the"
C16_Witness ==
    search.called /\ search.string1 = S_teh /\ search.string2 = S_the

---------------------------------------------------------------------------
(* Properties of the report endpoint *)

\* the allow-list of origins
AllowList == {O_ecolingui, O_dictionary}

OriginAllowed == isset(report.origin) /\ report.origin.s \in AllowList

\* C17: the report endpoint sends no email and answers with an unauthorized
\* status for every request that has no Origin header or whose Origin is
\* not in the allow-list, whatever else the request holds.
C17_DisallowedOriginRejected ==
    (report.requests > 0 /\ ~OriginAllowed) =>
        /\ report.status = 401
        /\ report.sent = 0

\* C18: the report endpoint rejects a request that lacks an entry identifier
\* (status 400 for an allowed origin, no email); for a request with an
\* allowed origin and an id it sends exactly one email, to the fixed
\* maintainer address; an email is sent if and only if the origin is
\* allowed and the id is present.
C18_MailIffAllowedAndId ==
    report.requests > 0 =>
        /\ ~isset(report.id) => report.sent = 0
        /\ (OriginAllowed /\ ~isset(report.id)) => report.status = 400
        /\ (OriginAllowed /\ isset(report.id)) =>
              /\ report.sent = 1
              /\ report.mails[Len(report.mails)].to = Maintainer
        /\ (report.sent > 0) <=> (OriginAllowed /\ isset(report.id))
        /\ \A i \in DOMAIN report.mails : report.mails[i].to = Maintainer

---------------------------------------------------------------------------
(* Properties of the snapshot *)

\* C19: the derived views are pure functions over the snapshot: evaluating
\* the sorted view, a random sample or a slice, any number of times and in
\* any order, leaves the stored entry collection unchanged: the same
\* entries in the same order as they were loaded.
C19_ViewsLeaveStoreUnchanged ==
    view.op # "none" => dictionary_data = loaded

\* C20: a failed remote fetch leaves the application on its last-known
\* snapshot: if the configuration fetch or the data fetch does not succeed,
\* the entry collection and the configuration of the service are both as
\* they were before the fetch started.
C20_FailedFetchKeepsSnapshot ==
    (remote.config = "failed" \/ remote.data = "failed") =>
        /\ dictionary_data = loaded
        /\ config = loadedConfig

\* C21: writes are whole-snapshot replacements: in every state a reader can
\* observe during remote loading, the configuration and the entry collection
\* belong to the same snapshot, both the previous ones or both the fetched
\* ones; the fetched configuration is never paired with the previous entry
\* collection.
C21_SnapshotReplacedWhole ==
    \/ config = loadedConfig /\ dictionary_data = loaded
    \/ remote.config = "ok" /\ remote.data = "ok"

---------------------------------------------------------------------------
(* Properties of the audio playback *)

\* the filename of the first attachment of the entry with a non-empty filename
FirstFilename(entry) ==
    LET k == CHOOSE k \in DOMAIN entry.audio.files :
                 /\ NonEmptyString(entry.audio.files[k].filename)
                 /\ \A j \in 1..(k - 1) : ~NonEmptyString(entry.audio.files[j].filename)
    IN  entry.audio.files[k].filename.s

\* C22: a play action never crashes: for every entry for which hasAudio is
\* true, playDefaultAudio builds the path from the first attachment with a
\* non-empty filename and starts the playback without throwing, and when the
\* audio resource cannot be loaded the file-not-found notice is opened for
\* that path.
C22_PlayNeverCrashes ==
    playback.state # "idle" =>
        LET entry == CHOOSE e \in Range(dictionary_data) : e.entryID = playback.entryID
            prefix == IF config.audio_path.t = "absent" THEN <<>> ELSE config.audio_path.s
        IN  /\ playback.state # "threw"
            /\ playback.path = prefix \o FirstFilename(entry)
            /\ playback.state = "failed" => playback.notice = Str(playback.path)

---------------------------------------------------------------------------
(* Properties of the browse view: marks, snapshots, pagination, window *)

\* C23: after the letter index has been computed over the current
\* collection, an entry of the collection that carries a letter mark
\* (firstWordIndex) is the first entry of the collection with that leading
\* letter, so that at most one entry carries the mark of a letter; this holds
\* after any sequence of category selections and recomputations.
C23_OnlyFirstEntryMarked ==
    selectedCategory # <<>> =>
        \A i \in DOMAIN currentEntries :
            LET mark == firstWordIndex[currentEntries[i].entryID]
            IN  mark # NoMark =>
                    /\ currentEntries[i].sorting_form[1] = mark
                    /\ \A j \in 1..(i - 1) : currentEntries[j].sorting_form[1] # mark

\* C24: the derived browse state follows the replacement of the snapshot:
\* whenever the service emits a new entry collection while a category other
\* than 'words' is selected (and the new collection has that category), the
\* current collection of the browse view is afterwards that category's
\* entries in the new snapshot, and the cursor is valid for it.
C24_BrowseFollowsSnapshot ==
    [][(/\ emits' # emits
        /\ selectedCategory # S_words
        /\ selectedCategory' \in category_keys(dictionary_data', browseAudio'))
          => /\ currentEntries' = categories(dictionary_data', browseAudio')[selectedCategory']
             /\ startIndex' \in 0..(Len(currentEntries') - 1)]_vars

\* the cursor is a position of the current collection, 0 when it is empty
CursorInRange ==
    IF currentEntries = <<>> THEN startIndex = 0
    ELSE startIndex \in 0..(Len(currentEntries) - 1)

\* the navigation just requested goes to position n
RequestedIs(n) ==
    /\ pendingNav'.pending
    /\ pendingNav'.target = NatToString(n)

\* C28: pagination keeps the cursor in range: from a cursor in
\* [0, length - 1], any sequence of prevX and nextX requests leaves the
\* cursor in [0, length - 1] (0 for an empty collection); prevX never asks
\* for a negative position and asks for 0 when fewer than a page precedes;
\* nextX from the last page asks for max(length - pageSize, 0), never for a
\* position past the end.
C28_PaginationInRange ==
    [][/\ CursorInRange'
       /\ (PrevX /\ ~default_shown.nan) =>
             RequestedIs(Max(startIndex - default_shown.v, 0))
       /\ (PrevX /\ default_shown.nan) => RequestedIs(0)
       /\ (NextX /\ ~default_shown.nan) =>
             IF startIndex + default_shown.v < Len(currentEntries)
             THEN RequestedIs(startIndex + default_shown.v)
             ELSE /\ RequestedIs(Max(Len(currentEntries) - default_shown.v, 0))
                  /\ Max(Len(currentEntries) - default_shown.v, 0)
                        <= Max(Len(currentEntries) - 1, 0)]_vars

\* nextX on the last page of a collection of two entries shown one by one,
\* and the cursor after a page forward has been delivered
C28_Witness ==
    /\ Len(currentEntries) = 2
    /\ default_shown = Num(1)
    /\ startIndex = 1
    /\ routeStart = Str(<<"1">>)
    /\ pendingNav = [pending |-> TRUE, target |-> <<"1">>]
    /\ redirects = 0

\* C29: after every browse operation (route start change, category
\* selection, snapshot emission, change of the default_shown query
\* parameter) the displayed window currentX is the slice of the current
\* collection that starts at the cursor and has default_shown entries.
C29_WindowIsSlice ==
    currentX = getXFrom(startIndex, currentEntries, default_shown)

\* the words of the example marked active, counted from 0 as the code does
ActiveWords == {k \in 0..(Len(example.definition) - 1) : example.definition[k + 1].active}

\* the word whose interval [starts[k-1], starts[k]) holds the position t
WordAt(t) == Cardinality({i \in DOMAIN example.starts : example.starts[i] <= t})

\* C25: while the audio of an example with a valid alignment is playing,
\* after every time update the word whose interval holds the playback
\* position is the one marked active, also on consecutive time updates
\* within the same word.
C25_ActiveWordFollowsTime ==
    [][\A t \in 0..(MaxTime - 1) :
          (/\ Len(example.players) = 1
           /\ example.players[1].handlers
           /\ TimeUpdate(1, t)) => ActiveWords' = {WordAt(t)}]_vars

\* C26: at most one word of an example is marked active at any time, for
\* every sequence of playing, timeupdate and ended events, time updates that
\* move backwards and events of two overlapping playbacks included.
C26_AtMostOneActive == Cardinality(ActiveWords) <= 1

\* C27: when a playback of the example has ended and no other playback of
\* the example is running, no word of the example is marked active.
C27_EndedClearsAll ==
    (/\ \E p \in DOMAIN example.players : example.players[p].phase = "ended"
     /\ \A p \in DOMAIN example.players : example.players[p].phase # "playing")
        => ActiveWords = {}

\* two playbacks of an aligned example of three words have both ended, the
\* second of them after a time update within the last word
C27_Witness ==
    /\ Len(example.definition) = 3
    /\ aligned(example)
    /\ Len(example.players) = 2
    /\ \A p \in DOMAIN example.players : example.players[p].phase = "ended"
    /\ ActiveWords = {}

\* the report dialogs of the modal that are in the state st
DialogsIn(st) == {d \in DOMAIN modal.dialogs : modal.dialogs[d] = st}

\* C30: an entry is reported at most once per word modal: a report dialog
\* is opened only while reported is false; reported becomes true only when
\* a dialog closes with a result and never returns to false; a dialog closed
\* without a result leaves reported as it was; and for every interleaving of
\* openReport calls and dialog closings at most one dialog yields a
\* 'reported' result.
C30_ReportedAtMostOnce ==
    [][/\ Len(modal'.dialogs) > Len(modal.dialogs) => ~modal.reported
       /\ (modal'.reported /\ ~modal.reported) =>
             \E d \in DialogsIn("open") : modal'.dialogs[d] = "reported"
       /\ modal.reported => modal'.reported
       /\ (\E d \in DialogsIn("open") : modal'.dialogs[d] = "dismissed") =>
             modal'.reported = modal.reported
       /\ Cardinality({d \in DOMAIN modal'.dialogs :
                          modal'.dialogs[d] = "reported"}) <= 1]_vars

====
